---- MODULE Spec2Model ----
(***************************************************************************)
(* Model of the TOTP Login form component                                  *)
(* (client/src/components/TOTP/Login.js).                                  *)
(*                                                                         *)
(* Strings typed into the code field are sequences of one-character        *)
(* strings, so that length, truncation and filtering are observable.       *)
(* Prop values that are opaque to the component (error text, URLs) are     *)
(* TLA+ strings; Null and Undefined stand for the JavaScript values null   *)
(* and undefined and are not members of the string domains.                *)
(***************************************************************************)
EXTENDS Integers, Sequences, FiniteSets, TLC

VARIABLES
    mounted,        \* componentDidMount has run
    props,          \* this.props, after defaultProps were applied
    state,          \* this.state
    codeInput,      \* this.codeInput.current
    i18n,           \* window.ss.i18n: the loaded translation dictionary
    view,           \* the rendered output (elements are 0/1-length sequences)
    activeElement,  \* document.activeElement
    focusCalls,     \* number of calls of codeInput.current.focus()
    event,          \* the most recent event delivered to the component
    lastChange,     \* value of the most recent change event, if any
    calls           \* arguments of the onCompleteLogin calls made by the
                    \* handler of the most recent event

vars == <<mounted, props, state, codeInput, i18n, view, activeElement,
          focusCalls, event, lastChange, calls>>

----------------------------------------------------------------------------
(* Bounds and input domains *)

MaxLen == 3

Alphabet == {"1", "a"}

RECURSIVE StringsOfLen(_)
StringsOfLen(n) ==
    IF n = 0 THEN {<<>>}
    ELSE {Append(s, c) : s \in StringsOfLen(n - 1), c \in Alphabet}

\* the field values of section 8 of the specification and two more around
\* the default length: one too long, one with a non-digit
ExampleValues ==
    { <<"1", "2", "3", "4", "5">>,
      <<"1", "2", "3", "4", "5", "6">>,
      <<"1", "2", "3", "4", "5", "a">>,
      <<"1", "2", "3", "4", "5", "6", "7">> }

InputValues == UNION {StringsOfLen(n) : n \in 0..MaxLen} \cup ExampleValues

Null == "null"
Undefined == "undefined"

ErrorStrings == {"", "Code expired", "Too many attempts"}

SupportLinks == {"", "https://help.example/totp", "https://docs.example/mfa"}

\* key codes of released keys: Enter and two others
EnterKey == 13
KeyCodes == {EnterKey, 49, 65}

CodeInputId == "totp-code"
Body == "body"

\* method descriptors the parent may pass
Methods ==
    {[name |-> "TOTP"]}
    \cup {[name |-> "TOTP", supportLink |-> l] : l \in SupportLinks}

\* props objects the parent may pass (required props always present)
GivenProps ==
    {[method |-> m] : m \in Methods}
    \cup {[method |-> m, codeLength |-> n] : m \in Methods, n \in {2, 3}}

\* translation dictionaries that may be loaded
Dictionaries ==
    { [k \in {} |-> ""],
      [k \in {"TOTPLogin.ERROR"} |-> "Code invalide"] }

----------------------------------------------------------------------------
(* JavaScript helpers *)

\* obj.key
Get(obj, key) == IF key \in DOMAIN obj THEN obj[key] ELSE Undefined

\* !!v for the values that occur (strings, null, undefined)
Truthy(v) == v \notin {Null, Undefined, ""}

DefaultCodeLength == 6

\* Login.defaultProps applied to the props the parent passed
WithDefaults(given, error) ==
    [ method     |-> given.method,
      codeLength |-> IF "codeLength" \in DOMAIN given
                     THEN given.codeLength ELSE DefaultCodeLength,
      error      |-> IF error = Undefined THEN Null ELSE error ]

\* i18n._t(key, defaultText)
Translate(dict, key, defaultText) ==
    IF key \in DOMAIN dict THEN dict[key] ELSE defaultText

----------------------------------------------------------------------------
(* The component *)

CanSubmit_GE(s, p) == Len(s.code) >= p.codeLength

CanSubmit(s, p) == Len(s.code) = p.codeLength

RenderActionsMenu_NotNegated(s, p) ==
    << [disabled |-> CanSubmit(s, p)] >>

\* the Next button
RenderActionsMenu(s, p) ==
    << [disabled |-> ~CanSubmit(s, p)] >>

RenderSupportLink_FixedHref(p) ==
    IF ~Truthy(Get(p.method, "supportLink")) THEN <<>>
    ELSE << [href |-> "#"] >>

RenderSupportLink(p) ==
    IF ~Truthy(Get(p.method, "supportLink")) THEN <<>>
    ELSE << [href |-> Get(p.method, "supportLink")] >>

RenderHelpBlock_NonNull(p, dict) ==
    IF p.error # Null
    THEN << [text |-> Translate(dict, "TOTPLogin.ERROR", "Invalid code")] >>
    ELSE <<>>

RenderHelpBlock_Verbatim(p, dict) ==
    IF Truthy(p.error) THEN << [text |-> p.error] >> ELSE <<>>

\* {error && <div className="help-block">...</div>}
RenderHelpBlock(p, dict) ==
    IF Truthy(p.error)
    THEN << [text |-> Translate(dict, "TOTPLogin.ERROR", "Invalid code")] >>
    ELSE <<>>

RenderVerifyForm(s, p, dict) ==
    [ hasError    |-> Truthy(p.error),
      supportLink |-> RenderSupportLink(p),
      input       |-> << [id |-> CodeInputId, value |-> s.code,
                          maxLength |-> p.codeLength] >>,
      helpBlock   |-> RenderHelpBlock(p, dict) ]

Render(s, p, dict) ==
    [ form |-> RenderVerifyForm(s, p, dict),
      next |-> RenderActionsMenu(s, p) ]

\* nothing rendered yet
EmptyView ==
    [ form |-> [hasError |-> FALSE, supportLink |-> <<>>, input |-> <<>>,
                helpBlock |-> <<>>],
      next |-> <<>> ]

Init ==
    /\ mounted = FALSE
    /\ \E given \in GivenProps, e \in ErrorStrings \cup {Undefined} :
          props = WithDefaults(given, e)
    /\ state = [code |-> <<>>]
    /\ codeInput = Null
    /\ i18n \in Dictionaries
    /\ view = EmptyView
    /\ activeElement = Body
    /\ focusCalls = 0
    /\ event = [type |-> "none", keyCode |-> 0]
    /\ lastChange = [fired |-> FALSE, value |-> <<>>]
    /\ calls = <<>>

ComponentDidMount_NoFocus ==
    /\ activeElement' = activeElement
    /\ focusCalls' = focusCalls

ComponentDidMount ==
    IF codeInput' # Null
    THEN /\ activeElement' = codeInput'
         /\ focusCalls' = focusCalls + 1
    ELSE /\ activeElement' = activeElement
         /\ focusCalls' = focusCalls

\* first render, ref attachment and componentDidMount
Mount ==
    /\ ~mounted
    /\ mounted' = TRUE
    /\ view' = Render(state, props, i18n)
    /\ codeInput' = IF view'.form.input # <<>> THEN view'.form.input[1].id
                    ELSE Null
    /\ ComponentDidMount
    /\ event' = [type |-> "mount", keyCode |-> 0]
    /\ calls' = <<>>
    /\ UNCHANGED <<props, state, i18n, lastChange>>

HandleChangeCode_Truncate(value) ==
    state' = [state EXCEPT !.code =
                 SubSeq(value, 1, IF Len(value) < props.codeLength
                                  THEN Len(value) ELSE props.codeLength)]

HandleChangeCode(value) ==
    state' = [state EXCEPT !.code = value]

\* change event on the code field
Change(value) ==
    /\ mounted
    /\ event' = [type |-> "change", keyCode |-> 0]
    /\ lastChange' = [fired |-> TRUE, value |-> value]
    /\ HandleChangeCode(value)
    /\ calls' = <<>>
    /\ view' = Render(state', props, i18n)
    /\ UNCHANGED <<mounted, props, codeInput, i18n, activeElement, focusCalls>>

HandleSubmit_Clear ==
    /\ calls' = << [code |-> state.code] >>
    /\ state' = [state EXCEPT !.code = <<>>]

HandleSubmit ==
    /\ calls' = << [code |-> state.code] >>
    /\ state' = state

HandleInputKeyUp_NoCanSubmit(keyCode) ==
    IF keyCode = EnterKey
    THEN HandleSubmit
    ELSE calls' = <<>> /\ state' = state

HandleInputKeyUp(keyCode) ==
    IF CanSubmit(state, props) /\ keyCode = EnterKey
    THEN HandleSubmit
    ELSE calls' = <<>> /\ state' = state

\* keyup event on the code field
KeyUp(keyCode) ==
    /\ mounted
    /\ event' = [type |-> "keyup", keyCode |-> keyCode]
    /\ HandleInputKeyUp(keyCode)
    /\ view' = Render(state', props, i18n)
    /\ UNCHANGED <<mounted, props, codeInput, i18n, activeElement, focusCalls,
                   lastChange>>

NextOnClick_IgnoreDisabled ==
    HandleSubmit

\* <button disabled={isNextDisabled} onClick={this.handleSubmit}>: a
\* disabled button dispatches no click
NextOnClick ==
    IF view.next[1].disabled
    THEN calls' = <<>> /\ state' = state
    ELSE HandleSubmit

\* the user clicks the Next button
ClickNext ==
    /\ mounted
    /\ event' = [type |-> "click", keyCode |-> 0]
    /\ NextOnClick
    /\ view' = Render(state', props, i18n)
    /\ UNCHANGED <<mounted, props, codeInput, i18n, activeElement, focusCalls,
                   lastChange>>

\* the parent re-renders the component with a new error prop
ParentRender(error) ==
    /\ mounted
    /\ props' = [props EXCEPT !.error = IF error = Undefined THEN Null
                                         ELSE error]
    /\ props' # props
    /\ view' = Render(state, props', i18n)
    /\ event' = [type |-> "props", keyCode |-> 0]
    /\ calls' = <<>>
    /\ UNCHANGED <<mounted, state, codeInput, i18n, activeElement, focusCalls,
                   lastChange>>

\* the user moves the focus (tab, click) to or away from the code field
UserFocus(el) ==
    /\ mounted
    /\ el # activeElement
    /\ activeElement' = el
    /\ event' = [type |-> "focus", keyCode |-> 0]
    /\ calls' = <<>>
    /\ UNCHANGED <<mounted, props, state, codeInput, i18n, view, focusCalls,
                   lastChange>>

Next ==
    \/ Mount
    \/ \E value \in InputValues : Change(value)
    \/ \E keyCode \in KeyCodes : KeyUp(keyCode)
    \/ ClickNext
    \/ \E error \in ErrorStrings \cup {Undefined} : ParentRender(error)
    \/ \E el \in {CodeInputId, Body} : UserFocus(el)

Spec == Init /\ [][Next]_vars

----------------------------------------------------------------------------
(* Properties *)

Eligible == Len(state.code) = props.codeLength

NextDisabled == view.next[1].disabled

HelpBlock == view.form.helpBlock

SupportLink == Get(props.method, "supportLink")

\* C1: a key-up event calls onCompleteLogin exactly once, with the current
\* code, when the released key is Enter (13) and the code's length equals
\* codeLength; every other key-up event makes no call.
C1_EnterSubmitsIffEligible ==
    [][ event'.type = "keyup" =>
          calls' = IF event'.keyCode = 13 /\ Eligible
                   THEN << [code |-> state.code] >>
                   ELSE <<>> ]_vars

C1_Witness ==
    /\ event.type = "keyup"
    /\ event.keyCode = 13
    /\ Eligible
    /\ calls = << [code |-> state.code] >>

\* C2: a click on the Next button makes no call to onCompleteLogin when the
\* code is not submit-eligible (the button is disabled) and exactly one call,
\* with the current code, when it is.
C2_ClickSubmitsIffEnabled ==
    [][ event'.type = "click" =>
          calls' = IF Eligible
                   THEN << [code |-> state.code] >>
                   ELSE <<>> ]_vars

C2_Witness ==
    /\ event.type = "click"
    /\ Eligible
    /\ ~NextDisabled
    /\ Len(calls) = 1

\* C3: in every state canSubmit is true exactly when the length of the code
\* equals codeLength, and once rendered the Next button is disabled exactly
\* when canSubmit is false; with the default codeLength of 6 a 5-character
\* code leaves the button disabled and a 6-character code enables it.
C3_EligibilityIsLengthMatch ==
    /\ CanSubmit(state, props) <=> Eligible
    /\ mounted =>
         /\ NextDisabled <=> ~Eligible
         /\ props.codeLength = 6 /\ Len(state.code) = 5 => NextDisabled
         /\ props.codeLength = 6 /\ Len(state.code) = 6 => ~NextDisabled

C3_Witness ==
    /\ mounted
    /\ props.codeLength = 6
    /\ state.code = <<"1", "2", "3", "4", "5", "6">>
    /\ ~NextDisabled

\* C4: after a change event with field value s the stored code is s itself,
\* whatever its length and characters.
C4_ChangeStoresRawValue ==
    event.type = "change" => state.code = lastChange.value

C4_Witness ==
    /\ event.type = "change"
    /\ Len(state.code) > props.codeLength
    /\ \E i \in 1..Len(state.code) : state.code[i] = "a"
    /\ state.code = lastChange.value

\* C5 as stated: the error message element is rendered exactly when the
\* error prop is not null, the empty string included.
C5_Original ==
    mounted => (HelpBlock # <<>> <=> props.error # Null)

\* C5: the error message element is rendered exactly when the error prop is
\* a non-empty string; for null and for the empty string it is not.
C5_ErrorShownIffNonEmpty ==
    mounted => (HelpBlock # <<>> <=> props.error \notin {Null, ""})

C5_Witness ==
    /\ mounted
    /\ props.error = "Code expired"
    /\ Len(HelpBlock) = 1

\* C6 as stated: the rendered error message shows the error string itself.
C6_Original ==
    mounted /\ HelpBlock # <<>> => HelpBlock[1].text = props.error

\* C6: the rendered error message shows the translation of TOTPLogin.ERROR
\* (by default "Invalid code"), whatever the error string is.
C6_ErrorTextIsFixedMessage ==
    mounted /\ props.error \notin {Null, ""} =>
        /\ Len(HelpBlock) = 1
        /\ HelpBlock[1].text = IF "TOTPLogin.ERROR" \in DOMAIN i18n
                               THEN i18n["TOTPLogin.ERROR"]
                               ELSE "Invalid code"

C6_Witness ==
    /\ mounted
    /\ props.error = "Too many attempts"
    /\ HelpBlock = << [text |-> "Invalid code"] >>

\* C7: a step that calls onCompleteLogin leaves the code as it was and the
\* form submit-eligible, and a submit that follows a submit passes the same
\* code again; the code is empty at mount and becomes empty afterwards only
\* by a change event whose value is empty.
C7_SubmitKeepsCode ==
    [][ /\ calls' # <<>> =>
              /\ state' = state
              /\ Len(state'.code) = props'.codeLength
              /\ ~view'.next[1].disabled
        /\ calls # <<>> /\ calls' # <<>> => calls' = calls
        /\ event'.type = "mount" => state'.code = <<>>
        /\ state.code # <<>> /\ state'.code = <<>> =>
              /\ event'.type = "change"
              /\ lastChange'.value = <<>> ]_vars

C7_Witness ==
    /\ event.type \in {"click", "keyup"}
    /\ calls = << [code |-> state.code] >>
    /\ state.code # <<>>
    /\ ~NextDisabled

\* C8: the component calls focus() on the code input once, at mount, which
\* makes it the active element; no later event calls it again, and the
\* active element becomes the code input later only by the user's doing.
C8_FocusOnceAtMount ==
    [][ IF ~mounted /\ mounted'
        THEN /\ focusCalls = 0
             /\ focusCalls' = 1
             /\ activeElement' = CodeInputId
        ELSE /\ focusCalls' = focusCalls
             /\ activeElement' = CodeInputId /\ activeElement # CodeInputId
                  => event'.type = "focus" ]_vars

C8_Witness ==
    /\ mounted
    /\ focusCalls = 1
    /\ event.type = "props"
    /\ activeElement = Body

\* C9: when method.supportLink is absent (undefined or empty) no support
\* link is rendered; when it is a URL, one link is rendered and its href is
\* that URL.
C9_SupportLinkHref ==
    mounted =>
        IF SupportLink \in {Undefined, ""}
        THEN view.form.supportLink = <<>>
        ELSE view.form.supportLink = << [href |-> SupportLink] >>

C9_Witness ==
    /\ mounted
    /\ SupportLink = "https://docs.example/mfa"
    /\ view.form.supportLink = << [href |-> "https://docs.example/mfa"] >>

\* C10: every call of onCompleteLogin carries a code whose length equals
\* codeLength and which is the value of the most recent change event.
C10_CallsCarryCurrentCode ==
    \A i \in 1..Len(calls) :
        /\ Len(calls[i].code) = props.codeLength
        /\ lastChange.fired
        /\ calls[i].code = lastChange.value

C10_Witness ==
    /\ Len(calls) = 1
    /\ lastChange.fired
    /\ calls[1].code = lastChange.value
    /\ Len(calls[1].code) = props.codeLength

====
